---- MODULE Spec2Model ----
(***************************************************************************)
(* Narrative engine of mybot: NarrativeService (narrative_service.py)      *)
(* driving one user's UserNarrativeState and UserDecision log over a       *)
(* story catalog.  The durable store is `db`; every handler works on the   *)
(* copy of the row its session loaded and writes it back at commit.        *)
(***************************************************************************)
EXTENDS Integers, Sequences, FiniteSets, TLC

VARIABLES
    db,            \* durable store: [state: UserNarrativeState row, decisions: UserDecision log]
    achievements,  \* achievement ids the achievement collaborator holds for the user
    user,          \* the User row: [level, role]
    trace,         \* collaborator and commit calls made by the last handler call, in order
    result,        \* what the last handler call returned (or that it raised)
    calls          \* handler calls in flight (used by the interleaved specification only)

vars == <<db, achievements, user, trace, result, calls>>

----------------------------------------------------------------------------
(* Bounds of the model *)

MaxDecisions == 2

\* datetime.utcnow(): the instants a call can read, all later than the 0 of a
\* column never stamped
Times == {1}

Levels == {1, 5}
Roles == {"free", "vip"}
StoryIds == {"free", "vip", "empty", "nope"}
ChoiceIds == {"c1", "c2", "c3", "c4", "zz"}
Collaborators == {"points", "metrics", "achievements", "lore", "checkpoint"}
\* what the environment does to one call: the collaborators that fail during
\* it, and which of its commits fails (0 = none)
Env(failing, failCommit) == [failing |-> failing, failCommit |-> failCommit]
StartEnvs == {Env({}, 0), Env({}, 1), Env({}, 2), Env(Collaborators, 0)}
CallEnvs == {Env({}, 0), Env({}, 1), Env(Collaborators, 0)}

----------------------------------------------------------------------------
(* Small helpers for Python containers *)

None == "none"

Get(d, k, default) == IF k \in DOMAIN d THEN d[k] ELSE default

Update(d, e) == [k \in DOMAIN d \cup DOMAIN e |-> IF k \in DOMAIN e THEN e[k] ELSE d[k]]

Contains(s, x) == \E i \in 1..Len(s) : s[i] = x

Index(s, x) == CHOOSE i \in 1..Len(s) : s[i] = x /\ \A j \in 1..(i-1) : s[j] # x

Elems(s) == {s[i] : i \in 1..Len(s)}

EmptyDict == [k \in {} |-> 0]

----------------------------------------------------------------------------
(* Story catalog (StoryManager: story_manager.py is outside src/) *)

NoRequirements == EmptyDict
NoEffects == EmptyDict
NoRewards == [points |-> 0, achievements |-> <<>>, lore_pieces |-> <<>>, unlock_fragments |-> <<>>]

Choice(id, next, reqs, effects) ==
    [id |-> id, next_fragment |-> next, requirements |-> reqs, effects |-> effects]

Fragment(id, chapter, type, next, reqs, rewards, choices) ==
    [id |-> id, chapter |-> chapter, type |-> type, next_fragment |-> next,
     requirements |-> reqs, rewards |-> rewards, choices |-> choices]

NoFragment == Fragment(None, 0, None, None, NoRequirements, NoRewards, <<>>)
NoChoice == Choice(None, None, NoRequirements, NoEffects)

FreeFragments ==
    << Fragment("f1", 1, "decision", None, NoRequirements, NoRewards,
           << Choice("c1", "f2", NoRequirements,
                     [relationships |-> [lucien |-> 1, kinky |-> 2],
                      story_flags |-> [first_time |-> 0, met_lucien |-> 1],
                      points |-> 5]),
              Choice("c2", "f3", [min_level |-> 5], NoEffects),
              Choice("c3", "fX", NoRequirements, [points |-> 3]),
              Choice("c4", "f1", NoRequirements, NoEffects) >>),
       Fragment("f2", 1, "narrative", "f3", NoRequirements, NoRewards, <<>>),
       Fragment("f3", 2, "checkpoint", "f4", NoRequirements,
           [points |-> 10, achievements |-> <<"ach_checkpoint">>,
            lore_pieces |-> <<"lore1">>, unlock_fragments |-> <<"f9">>], <<>>),
       Fragment("f4", 2, "ending", None, [min_level |-> 5], NoRewards, <<>>) >>

VipFragments ==
    << Fragment("v1", 1, "narrative", "v2", NoRequirements, NoRewards, <<>>),
       Fragment("v2", 1, "checkpoint", None, NoRequirements, NoRewards, <<>>) >>

Story(id, requires_vip, fragments) ==
    [id |-> id, requires_vip |-> requires_vip, fragments |-> fragments]

NoStory == Story(None, FALSE, <<>>)

Stories == {Story("free", FALSE, FreeFragments),
            Story("vip", TRUE, VipFragments),
            Story("empty", FALSE, <<>>)}

get_story(story_id) ==
    IF \E s \in Stories : s.id = story_id
    THEN CHOOSE s \in Stories : s.id = story_id
    ELSE NoStory

get_starting_fragment(story_id) ==
    LET fs == get_story(story_id).fragments
    IN IF Len(fs) = 0 THEN NoFragment ELSE fs[1]

get_fragment(story_id, fragment_id) ==
    LET fs == get_story(story_id).fragments
    IN IF \E i \in 1..Len(fs) : fs[i].id = fragment_id
       THEN fs[CHOOSE i \in 1..Len(fs) : fs[i].id = fragment_id]
       ELSE NoFragment

validate_choice(story_id, fragment_id, choice_id) ==
    LET cs == get_fragment(story_id, fragment_id).choices
    IN IF \E i \in 1..Len(cs) : cs[i].id = choice_id
       THEN cs[CHOOSE i \in 1..Len(cs) : cs[i].id = choice_id]
       ELSE NoChoice

\* (satisfied, missing): one reason per unmet requirement, in declaration order
check_requirements(requirements, user_data) ==
    LET missing ==
            IF "min_level" \in DOMAIN requirements
               /\ user_data.level < requirements.min_level
            THEN << [kind |-> "min_level", value |-> requirements.min_level] >>
            ELSE <<>>
    IN [ok |-> Len(missing) = 0, missing |-> missing]

\* |distinct visited /\ story fragments| / |story fragments| * 100, 0 for an empty story
calculate_completion_percent(story_id, visited) ==
    LET ids == {f.id : f \in Elems(get_story(story_id).fragments)}
    IN IF ids = {} THEN 0
       ELSE (Cardinality(Elems(visited) \cap ids) * 100) \div Cardinality(ids)

----------------------------------------------------------------------------
(* UserNarrativeState row and the session context a handler works in *)

\* no row for the user
NoState ==
    [present |-> FALSE, active_story |-> None, current_fragment_id |-> None,
     current_chapter |-> 0, fragments_visited |-> <<>>,
     story_flags |-> EmptyDict, relationship_scores |-> EmptyDict,
     total_decisions_made |-> 0, story_completion_percent |-> 0,
     vip_story_unlocked |-> FALSE, last_interaction_at |-> 0]

\* the columns initialize_user_narrative does not set keep the defaults of NoState
NewState ==
    [NoState EXCEPT
        !.present = TRUE,
        !.current_fragment_id = None,
        !.fragments_visited = <<>>,
        !.story_flags = [first_time |-> 1, lucien_relationship |-> 0,
                         diana_relationship |-> 0, secrets_discovered |-> 0],
        !.relationship_scores = [lucien |-> 0, diana |-> 0]]

\* a call the handler made: failed tells whether the collaborator failed on it
Event(kind, id, arg, amount) ==
    [kind |-> kind, id |-> id, arg |-> arg, amount |-> amount, failed |-> FALSE]

\* a session opened on the durable store d: the loaded row, the working copy,
\* rows added and not yet committed, and what the call has done so far
Session(loaded, d, ach) ==
    [loaded |-> loaded, state |-> loaded, pending |-> <<>>, db |-> d,
     achievements |-> ach, trace |-> <<>>, raised |-> FALSE, ncommit |-> 0]

\* UPDATE of the columns the session changed since it loaded the row
WriteBack(durable, loaded, working) ==
    [f \in DOMAIN working |-> IF working[f] # loaded[f] THEN working[f] ELSE durable[f]]

\* session.commit(): nothing reaches the store when it fails, and the failure
\* propagates; an INSERT of a row that exists by now fails on the primary key
CommitPartial(ctx, failCommit) ==
    LET n == ctx.ncommit + 1
        written == [state |-> ctx.state, decisions |-> ctx.db.decisions]
    IN IF ctx.raised THEN ctx
       ELSE IF n = failCommit
       THEN [ctx EXCEPT !.raised = TRUE, !.ncommit = n, !.db = written,
                        !.trace = Append(@, Event("commit_failed", None, None, 0))]
       ELSE [ctx EXCEPT !.db = [written EXCEPT !.decisions = @ \o ctx.pending],
                        !.loaded = ctx.state, !.pending = <<>>, !.ncommit = n,
                        !.trace = Append(@, Event("commit", None, None, 0))]

Commit(ctx, failCommit) ==
    LET n == ctx.ncommit + 1
        conflict == ~ctx.loaded.present /\ ctx.db.state.present
    IN IF ctx.raised THEN ctx
       ELSE IF n = failCommit \/ conflict
       THEN [ctx EXCEPT !.raised = TRUE, !.ncommit = n,
                        !.trace = Append(@, Event("commit_failed", None, None, 0))]
       ELSE [ctx EXCEPT
                !.db = [state |-> IF ctx.loaded.present
                                  THEN WriteBack(ctx.db.state, ctx.loaded, ctx.state)
                                  ELSE ctx.state,
                        decisions |-> ctx.db.decisions \o ctx.pending],
                !.loaded = ctx.state, !.pending = <<>>, !.ncommit = n,
                !.trace = Append(@, Event("commit", None, None, 0))]

----------------------------------------------------------------------------
(* Collaborators reached through the private helpers of NarrativeService.   *)
(* The helpers' bodies lie past the end of the source file; they follow     *)
(* spec.md sections 6 and 7: a failure is caught, logged and swallowed.     *)

AuxCallRaising(ctx, who, failing, ev) ==
    IF ctx.raised THEN ctx
    ELSE [ctx EXCEPT !.trace = Append(@, [ev EXCEPT !.failed = who \in failing]),
                     !.raised = who \in failing]

AuxCall(ctx, who, failing, ev) ==
    IF ctx.raised THEN ctx
    ELSE [ctx EXCEPT !.trace = Append(@, [ev EXCEPT !.failed = who \in failing])]

\* amount 0 with id "fragment_read" / "decision_made" stands for NARRATIVE_POINTS[id]
_give_narrative_points(ctx, id, amount, failing) ==
    AuxCall(ctx, "points", failing, Event("points", id, None, amount))

_record_fragment_visit(ctx, fragment_id, failing) ==
    AuxCall(ctx, "metrics", failing, Event("visit", fragment_id, None, 0))

_record_choice_metric(ctx, fragment_id, choice_id, failing) ==
    AuxCall(ctx, "metrics", failing, Event("choice_metric", fragment_id, choice_id, 0))

_unlock_lore_piece(ctx, lore_code, failing) ==
    AuxCall(ctx, "lore", failing, Event("lore", lore_code, None, 0))

_create_checkpoint(ctx, failing) ==
    AuxCall(ctx, "checkpoint", failing,
            Event("checkpoint", ctx.state.current_fragment_id, None, 0))

Granted(ctx, achievement_id, failing) ==
    IF ctx.raised \/ "achievements" \in failing THEN ctx
    ELSE [ctx EXCEPT !.achievements = @ \cup {achievement_id}]

\* grants through the achievement collaborator unless the user already holds it
_check_and_award_achievement(ctx, achievement_id, failing) ==
    Granted(AuxCall(ctx, "achievements", failing,
                    Event("achievement", achievement_id, None, 0)),
            achievement_id, failing)

_get_user_data_for_requirements(ctx, usr) ==
    [level |-> usr.level, items |-> <<>>, achievements |-> ctx.achievements,
     story_flags |-> IF ctx.state.present THEN ctx.state.story_flags ELSE EmptyDict]

----------------------------------------------------------------------------
(* Results: the (success, message, fragment) tuple, or an exception raised *)

\* arg is the story or choice id the call was given; prev is "start_story" or
\* "check_achievements" when the call before it was that one and succeeded;
\* from is the cursor a successful make_choice or navigate_next moved away
\* from, kept by a go_back that comes right after that move
NoStats == [has_started |-> FALSE]

\* granted, stats and history carry what check_achievements, get_user_stats and
\* get_user_history return
NoResult ==
    [op |-> None, ok |-> FALSE, code |-> None, fragment |-> None, missing |-> <<>>,
     arg |-> None, prev |-> None, from |-> None, granted |-> <<>>,
     stats |-> NoStats, history |-> <<>>]

Ret(ctx, op, ok, code, fragment_id, missing) ==
    [ctx |-> ctx,
     result |-> [NoResult EXCEPT !.op = op, !.ok = ok, !.code = code,
                                 !.fragment = fragment_id, !.missing = missing]]

\* the value the handler returns at its last line, unless a call it made raised
Finish(ctx, op, fragment_id) ==
    IF ctx.raised
    THEN Ret(ctx, op, FALSE, "Raised", None, <<>>)
    ELSE Ret(ctx, op, TRUE, "Ok", fragment_id, <<>>)

----------------------------------------------------------------------------
(* NarrativeService *)

initialize_user_narrative(ctx, failCommit) ==
    Commit([ctx EXCEPT !.state = NewState], failCommit)

StartStoryUpdateCursorOnly(state, story_id, starting_fragment) ==
    [state EXCEPT
        !.active_story = story_id,
        !.current_fragment_id = starting_fragment.id,
        !.current_chapter = starting_fragment.chapter,
        !.fragments_visited = <<starting_fragment.id>> \o @,
        !.story_completion_percent = 0,
        !.vip_story_unlocked = IF story_id = "vip" THEN TRUE ELSE @]

StartStoryUpdateKeepVisited(state, story_id, starting_fragment) ==
    [state EXCEPT
        !.active_story = story_id,
        !.current_fragment_id = starting_fragment.id,
        !.current_chapter = starting_fragment.chapter,
        !.fragments_visited = IF Contains(@, starting_fragment.id) THEN @
                              ELSE Append(@, starting_fragment.id),
        !.story_completion_percent = 0,
        !.vip_story_unlocked = IF story_id = "vip" THEN TRUE ELSE @]

StartStoryUpdate(state, story_id, starting_fragment) ==
    [state EXCEPT
        !.active_story = story_id,
        !.current_fragment_id = starting_fragment.id,
        !.current_chapter = starting_fragment.chapter,
        !.fragments_visited = << starting_fragment.id >>,
        !.story_completion_percent = 0,
        !.vip_story_unlocked = IF story_id = "vip" THEN TRUE ELSE @]

\* start_story from the VIP check on; ctx is the session once the row exists
StartStoryGated(ctx, usr, story, starting_fragment, failing, failCommit) ==
    IF ctx.raised
    THEN Finish(ctx, "start_story", None)
    ELSE IF story.requires_vip /\ usr.role # "vip"
    THEN Ret(ctx, "start_story", FALSE, "AccessDenied", None, <<>>)
    ELSE IF starting_fragment.id = None
    THEN Ret(ctx, "start_story", FALSE, "FragmentLoadError", None, <<>>)
    ELSE Finish(
            _give_narrative_points(
                _record_fragment_visit(
                    Commit([ctx EXCEPT !.state =
                                StartStoryUpdate(@, story.id, starting_fragment)],
                           failCommit),
                    starting_fragment.id, failing),
                "fragment_read", 0, failing),
            "start_story", starting_fragment.id)

start_story(ctx0, usr, story_id, failing, failCommit) ==
    IF get_story(story_id).id = None
    THEN Ret(ctx0, "start_story", FALSE, "NotFound", None, <<>>)
    ELSE StartStoryGated(
            IF ~ctx0.state.present
            THEN initialize_user_narrative(ctx0, failCommit)
            ELSE ctx0,
            usr, get_story(story_id), get_starting_fragment(story_id),
            failing, failCommit)

\* made_at is a column default of the model class, not set by the service
NewDecision(fragment_id, choice_id, chapter) ==
    [fragment_id |-> fragment_id, choice_id |-> choice_id, chapter |-> chapter,
     points_gained |-> 0, items_gained |-> <<>>]

ApplyRelationshipsOverwrite(scores, changes) ==
    [c \in DOMAIN scores \cup DOMAIN changes |->
        IF c \in DOMAIN changes THEN changes[c] ELSE scores[c]]

ApplyRelationships(scores, changes) ==
    [c \in DOMAIN scores \cup DOMAIN changes |->
        IF c \in DOMAIN changes THEN Get(scores, c, 0) + changes[c] ELSE scores[c]]

EffectsOnState(state, effects) ==
    [state EXCEPT
        !.relationship_scores =
            IF "relationships" \in DOMAIN effects
            THEN ApplyRelationships(@, effects.relationships) ELSE @,
        !.story_flags =
            IF "story_flags" \in DOMAIN effects
            THEN Update(@, effects.story_flags) ELSE @]

EffectsOnDecision(decision, effects) ==
    [decision EXCEPT
        !.items_gained = IF "items" \in DOMAIN effects THEN effects.items ELSE @,
        !.points_gained = IF "points" \in DOMAIN effects THEN effects.points ELSE @]

EffectsPoints(ctx, effects, failing) ==
    IF "points" \in DOMAIN effects
    THEN _give_narrative_points(ctx, "effect", effects.points, failing)
    ELSE ctx

\* the decision row is session.add-ed by the caller right after; the row and
\* the session are returned together, the row as the last pending one
_apply_choice_effects(ctx, effects, decision, failing) ==
    IF ~ctx.state.present
    THEN [ctx EXCEPT !.pending = Append(@, decision)]
    ELSE EffectsPoints(
            [ctx EXCEPT !.state = EffectsOnState(@, effects),
                        !.pending = Append(@, EffectsOnDecision(decision, effects))],
            effects, failing)

RECURSIVE AwardAll(_, _, _)
AwardAll(ctx, ids, failing) ==
    IF Len(ids) = 0 THEN ctx
    ELSE AwardAll(_check_and_award_achievement(ctx, Head(ids), failing), Tail(ids), failing)

RECURSIVE UnlockAll(_, _, _)
UnlockAll(ctx, codes, failing) ==
    IF Len(codes) = 0 THEN ctx
    ELSE UnlockAll(_unlock_lore_piece(ctx, Head(codes), failing), Tail(codes), failing)

HasRewards(rewards) == rewards # NoRewards

RewardPoints(ctx, rewards, failing) ==
    IF rewards.points > 0
    THEN _give_narrative_points(ctx, "reward", rewards.points, failing)
    ELSE ctx

\* the source file ends inside the unlock_fragments branch: the flag key is
\* created when absent, and what is stored under it afterwards is not modelled
DiscoveredFragments(ctx) ==
    IF ctx.raised \/ ~ctx.state.present THEN ctx
    ELSE IF "discovered_fragments" \in DOMAIN ctx.state.story_flags THEN ctx
    ELSE [ctx EXCEPT !.state.story_flags = Update(@, [discovered_fragments |-> <<>>])]

_process_fragment_rewards(ctx, fragment, failing) ==
    IF ~HasRewards(fragment.rewards) THEN ctx
    ELSE DiscoveredFragments(
            UnlockAll(
                AwardAll(RewardPoints(ctx, fragment.rewards, failing),
                         fragment.rewards.achievements, failing),
                fragment.rewards.lore_pieces, failing))

AppendNever(visited, fragment_id) == visited

AppendAlways(visited, fragment_id) == Append(visited, fragment_id)

AppendIfNew(visited, fragment_id) ==
    IF Contains(visited, fragment_id) THEN visited ELSE Append(visited, fragment_id)

MakeChoiceUpdateCountVisited(state, next_fragment, t) ==
    [state EXCEPT
        !.current_fragment_id = next_fragment.id,
        !.current_chapter = next_fragment.chapter,
        !.fragments_visited = AppendIfNew(@, next_fragment.id),
        !.total_decisions_made = Len(AppendIfNew(state.fragments_visited,
                                                 next_fragment.id)) - 1,
        !.last_interaction_at = t]

MakeChoiceUpdateNoCount(state, next_fragment, t) ==
    [state EXCEPT
        !.current_fragment_id = next_fragment.id,
        !.current_chapter = next_fragment.chapter,
        !.fragments_visited = AppendIfNew(@, next_fragment.id),
        !.last_interaction_at = t]

MakeChoiceUpdateReappend(state, next_fragment, t) ==
    [state EXCEPT
        !.current_fragment_id = next_fragment.id,
        !.current_chapter = next_fragment.chapter,
        !.fragments_visited = IF @[Len(@)] = next_fragment.id THEN @
                              ELSE Append(@, next_fragment.id),
        !.total_decisions_made = @ + 1,
        !.last_interaction_at = t]

MakeChoiceUpdate(state, next_fragment, t) ==
    [state EXCEPT
        !.current_fragment_id = next_fragment.id,
        !.current_chapter = next_fragment.chapter,
        !.fragments_visited = AppendIfNew(@, next_fragment.id),
        !.total_decisions_made = @ + 1,
        !.last_interaction_at = t]

ChoiceIsValidAlways(choice) == TRUE

ChoiceIsValid(choice) == choice.id # None

CanChooseAlways(check) == TRUE

CanChoose(check) == check.ok

CheckpointIfEntered(ctx, next_fragment, failing) ==
    IF next_fragment.type = "checkpoint"
    THEN _create_checkpoint(ctx, failing)
    ELSE ctx

RewardsIfFirstVisit(ctx, next_fragment, failing) ==
    IF HasRewards(next_fragment.rewards)
       /\ ctx.state.fragments_visited[Len(ctx.state.fragments_visited)] = next_fragment.id
    THEN _process_fragment_rewards(ctx, next_fragment, failing)
    ELSE ctx

RewardsIfAny(ctx, next_fragment, failing) ==
    IF HasRewards(next_fragment.rewards)
    THEN _process_fragment_rewards(ctx, next_fragment, failing)
    ELSE ctx

\* completion taken from the position of the cursor in the visited list
UpdateCompletionAtCursor(ctx) ==
    [ctx EXCEPT !.state.story_completion_percent =
        calculate_completion_percent(ctx.state.active_story,
            SubSeq(ctx.state.fragments_visited, 1,
                   Index(ctx.state.fragments_visited, ctx.state.current_fragment_id)))]

UpdateCompletionKeep(ctx) == ctx

UpdateCompletion(ctx) ==
    [ctx EXCEPT !.state.story_completion_percent =
        calculate_completion_percent(ctx.state.active_story, ctx.state.fragments_visited)]

\* the choice metric is recorded with state.current_fragment_id as it is by then
RecordChoiceAtCursor(ctx, choice_id, failing) ==
    _record_choice_metric(ctx, ctx.state.current_fragment_id, choice_id, failing)

ApplyEffectsIfAny(ctx, effects, decision, failing) ==
    IF DOMAIN effects # {}
    THEN _apply_choice_effects(ctx, effects, decision, failing)
    ELSE [ctx EXCEPT !.pending = Append(@, decision)]

MoveByChoice(ctx, next_fragment, t) ==
    [ctx EXCEPT !.state = MakeChoiceUpdate(@, next_fragment, t)]

\* make_choice once the choice, its requirements and its target are resolved
MakeChoiceTransition(ctx, t, current_fragment, choice, next_fragment, failing, failCommit) ==
    Finish(
      _give_narrative_points(
        RecordChoiceAtCursor(
          _record_fragment_visit(
            Commit(
              UpdateCompletion(
                RewardsIfAny(
                  CheckpointIfEntered(
                    MoveByChoice(
                      ApplyEffectsIfAny(ctx, choice.effects,
                          NewDecision(ctx.state.current_fragment_id, choice.id,
                                      current_fragment.chapter),
                          failing),
                      next_fragment, t),
                    next_fragment, failing),
                  next_fragment, failing)),
              failCommit),
            next_fragment.id, failing),
          choice.id, failing),
        "decision_made", 0, failing),
      "make_choice", next_fragment.id)

MakeChoiceCheckedEager(ctx, usr, t, current_fragment, choice, next_fragment, check, failing, failCommit) ==
    IF ~CanChoose(check)
    THEN Ret(ctx, "make_choice", FALSE, "RequirementsNotMet", None, check.missing)
    ELSE IF next_fragment.id = None
    THEN Ret(Commit(ApplyEffectsIfAny(ctx, choice.effects,
                        NewDecision(ctx.state.current_fragment_id, choice.id,
                                    current_fragment.chapter),
                        failing),
                    failCommit),
             "make_choice", FALSE, "FragmentLoadError", None, <<>>)
    ELSE MakeChoiceTransition(ctx, t, current_fragment, choice, next_fragment,
                              failing, failCommit)

MakeChoiceChecked(ctx, usr, t, current_fragment, choice, next_fragment, check, failing, failCommit) ==
    IF ~CanChoose(check)
    THEN Ret(ctx, "make_choice", FALSE, "RequirementsNotMet", None, check.missing)
    ELSE IF next_fragment.id = None
    THEN Ret(ctx, "make_choice", FALSE, "FragmentLoadError", None, <<>>)
    ELSE MakeChoiceTransition(ctx, t, current_fragment, choice, next_fragment,
                              failing, failCommit)

MakeChoiceValidated(ctx, usr, t, current_fragment, choice, failing, failCommit) ==
    IF ~ChoiceIsValid(choice)
    THEN Ret(ctx, "make_choice", FALSE, "InvalidChoice", None, <<>>)
    ELSE MakeChoiceChecked(ctx, usr, t, current_fragment, choice,
            get_fragment(ctx.state.active_story, choice.next_fragment),
            check_requirements(choice.requirements,
                               _get_user_data_for_requirements(ctx, usr)),
            failing, failCommit)

MakeChoiceAt(ctx, usr, t, choice_id, current_fragment, failing, failCommit) ==
    IF current_fragment.id = None
    THEN Ret(ctx, "make_choice", FALSE, "FragmentLoadError", None, <<>>)
    ELSE MakeChoiceValidated(ctx, usr, t, current_fragment,
            validate_choice(ctx.state.active_story, ctx.state.current_fragment_id,
                            choice_id),
            failing, failCommit)

make_choice(ctx0, usr, t, choice_id, failing, failCommit) ==
    IF ~ctx0.state.present
    THEN Ret(ctx0, "make_choice", FALSE, "NoActiveStory", None, <<>>)
    ELSE MakeChoiceAt(ctx0, usr, t, choice_id,
            get_fragment(ctx0.state.active_story, ctx0.state.current_fragment_id),
            failing, failCommit)

NavigateUpdateCounting(state, next_fragment, t) ==
    [state EXCEPT
        !.current_fragment_id = next_fragment.id,
        !.current_chapter = next_fragment.chapter,
        !.fragments_visited = AppendIfNew(@, next_fragment.id),
        !.total_decisions_made = @ + 1,
        !.last_interaction_at = t]

NavigateUpdate(state, next_fragment, t) ==
    [state EXCEPT
        !.current_fragment_id = next_fragment.id,
        !.current_chapter = next_fragment.chapter,
        !.fragments_visited = AppendIfNew(@, next_fragment.id),
        !.last_interaction_at = t]

NavigateTransition(ctx, t, next_fragment, failing, failCommit) ==
    Finish(
      _give_narrative_points(
        _record_fragment_visit(
          Commit(
            UpdateCompletion(
              RewardsIfAny([ctx EXCEPT !.state = NavigateUpdate(@, next_fragment, t)],
                           next_fragment, failing)),
            failCommit),
          next_fragment.id, failing),
        "fragment_read", 0, failing),
      "navigate_next", next_fragment.id)

NavigateCheckedOpen(ctx, t, next_fragment, check, failing, failCommit) ==
    IF next_fragment.id = None
    THEN Ret(ctx, "navigate_next", FALSE, "FragmentLoadError", None, <<>>)
    ELSE NavigateTransition(ctx, t, next_fragment, failing, failCommit)

NavigateChecked(ctx, t, next_fragment, check, failing, failCommit) ==
    IF next_fragment.id = None
    THEN Ret(ctx, "navigate_next", FALSE, "FragmentLoadError", None, <<>>)
    ELSE IF ~check.ok
    THEN Ret(ctx, "navigate_next", FALSE, "RequirementsNotMet", None, check.missing)
    ELSE NavigateTransition(ctx, t, next_fragment, failing, failCommit)

NavigateFrom(ctx, usr, t, current_fragment, next_fragment, failing, failCommit) ==
    IF current_fragment.id = None \/ current_fragment.next_fragment = None
    THEN Ret(ctx, "navigate_next", FALSE, "NoNextFragment", None, <<>>)
    ELSE NavigateChecked(ctx, t, next_fragment,
            check_requirements(next_fragment.requirements,
                               _get_user_data_for_requirements(ctx, usr)),
            failing, failCommit)

navigate_next(ctx0, usr, t, failing, failCommit) ==
    IF ~ctx0.state.present
    THEN Ret(ctx0, "navigate_next", FALSE, "NoActiveStory", None, <<>>)
    ELSE NavigateFrom(ctx0, usr, t,
            get_fragment(ctx0.state.active_story, ctx0.state.current_fragment_id),
            get_fragment(ctx0.state.active_story,
                get_fragment(ctx0.state.active_story,
                             ctx0.state.current_fragment_id).next_fragment),
            failing, failCommit)

GoBackToRecording(ctx, t, previous_fragment, failCommit) ==
    IF previous_fragment.id = None
    THEN Ret(ctx, "go_back", FALSE, "FragmentLoadError", None, <<>>)
    ELSE Finish(
            Commit([ctx EXCEPT
                        !.state = [@ EXCEPT
                            !.current_fragment_id = previous_fragment.id,
                            !.current_chapter = previous_fragment.chapter,
                            !.last_interaction_at = t],
                        !.pending = Append(@, NewDecision(ctx.state.current_fragment_id,
                                                          "back", ctx.state.current_chapter))],
                   failCommit),
            "go_back", previous_fragment.id)

GoBackToTrimming(ctx, t, previous_fragment, failCommit) ==
    IF previous_fragment.id = None
    THEN Ret(ctx, "go_back", FALSE, "FragmentLoadError", None, <<>>)
    ELSE Finish(
            Commit([ctx EXCEPT !.state = [@ EXCEPT
                        !.current_fragment_id = previous_fragment.id,
                        !.current_chapter = previous_fragment.chapter,
                        !.fragments_visited =
                            SubSeq(@, 1, Index(@, previous_fragment.id)),
                        !.last_interaction_at = t]],
                   failCommit),
            "go_back", previous_fragment.id)

GoBackTo(ctx, t, previous_fragment, failCommit) ==
    IF previous_fragment.id = None
    THEN Ret(ctx, "go_back", FALSE, "FragmentLoadError", None, <<>>)
    ELSE Finish(
            Commit([ctx EXCEPT !.state = [@ EXCEPT
                        !.current_fragment_id = previous_fragment.id,
                        !.current_chapter = previous_fragment.chapter,
                        !.last_interaction_at = t]],
                   failCommit),
            "go_back", previous_fragment.id)

\* back to the entry the list ends with before the current one
GoBackFromTail(ctx, t, current_index, failCommit) ==
    IF current_index <= 0
    THEN Ret(ctx, "go_back", FALSE, "CannotGoBack", None, <<>>)
    ELSE GoBackTo(ctx, t,
            get_fragment(ctx.state.active_story,
                SelectSeq(ctx.state.fragments_visited,
                          LAMBDA id : id # ctx.state.current_fragment_id)[
                    Len(ctx.state.fragments_visited) - 1]),
            failCommit)

GoBackFromFirst(ctx, t, current_index, failCommit) ==
    IF current_index <= 0
    THEN Ret(ctx, "go_back", FALSE, "CannotGoBack", None, <<>>)
    ELSE GoBackTo(ctx, t,
            get_fragment(ctx.state.active_story, ctx.state.fragments_visited[1]),
            failCommit)

\* current_index is the 0-based list.index(); fragments_visited[current_index - 1]
\* is the entry at 1-based position current_index
GoBackFrom(ctx, t, current_index, failCommit) ==
    IF current_index <= 0
    THEN Ret(ctx, "go_back", FALSE, "CannotGoBack", None, <<>>)
    ELSE GoBackTo(ctx, t,
            get_fragment(ctx.state.active_story,
                         ctx.state.fragments_visited[current_index]),
            failCommit)

go_back_unguarded(ctx0, t, failCommit) ==
    IF ~ctx0.state.present
    THEN Ret(ctx0, "go_back", FALSE, "CannotGoBack", None, <<>>)
    ELSE GoBackTo(ctx0, t,
            get_fragment(ctx0.state.active_story, ctx0.state.fragments_visited[1]),
            failCommit)

go_back(ctx0, t, failCommit) ==
    IF ~ctx0.state.present \/ Len(ctx0.state.fragments_visited) <= 1
    THEN Ret(ctx0, "go_back", FALSE, "CannotGoBack", None, <<>>)
    ELSE IF ~Contains(ctx0.state.fragments_visited, ctx0.state.current_fragment_id)
    THEN Finish([ctx0 EXCEPT !.raised = TRUE], "go_back", None)  \* list.index raises
    ELSE GoBackFrom(ctx0, t,
            Index(ctx0.state.fragments_visited, ctx0.state.current_fragment_id) - 1,
            failCommit)

----------------------------------------------------------------------------
(* Read-only queries and check_achievements *)

HistoryLimit == 20

\* ORDER BY made_at DESC: the log is in insertion order, latest row last
RECURSIVE Reverse(_)
Reverse(s) == IF Len(s) = 0 THEN <<>> ELSE Append(Reverse(Tail(s)), Head(s))

HistoryRows(story_id, decisions) ==
    IF story_id = None THEN decisions
    ELSE SelectSeq(decisions,
            LAMBDA d : d.fragment_id \in
                {f.id : f \in Elems(get_story(story_id).fragments)})

HistoryEntry(story_id, decision) ==
    [fragment |-> get_fragment(IF story_id = None THEN "free" ELSE story_id,
                               decision.fragment_id).id,
     choice_id |-> decision.choice_id, chapter |-> decision.chapter,
     points_gained |-> decision.points_gained,
     items_gained |-> decision.items_gained]

get_user_history(ctx, story_id, limit) ==
    [ctx |-> ctx,
     result |-> [NoResult EXCEPT
        !.op = "get_user_history", !.ok = TRUE, !.code = "Ok",
        !.history =
            [i \in 1..(IF Len(HistoryRows(story_id, ctx.db.decisions)) < limit
                       THEN Len(HistoryRows(story_id, ctx.db.decisions))
                       ELSE limit) |->
                HistoryEntry(story_id,
                    Reverse(HistoryRows(story_id, ctx.db.decisions))[i])]]]

RECURSIVE SumPoints(_)
SumPoints(decisions) ==
    IF Len(decisions) = 0 THEN 0
    ELSE Head(decisions).points_gained + SumPoints(Tail(decisions))

EndingsReached(state) ==
    SelectSeq(state.fragments_visited,
        LAMBDA id : get_fragment(state.active_story, id).type = "ending")

get_user_stats(ctx) ==
    [ctx |-> ctx,
     result |-> [NoResult EXCEPT
        !.op = "get_user_stats", !.ok = TRUE, !.code = "Ok",
        !.stats =
            IF ~ctx.state.present THEN NoStats
            ELSE [has_started |-> TRUE,
                  active_story |-> ctx.state.active_story,
                  current_chapter |-> ctx.state.current_chapter,
                  completion_percent |-> ctx.state.story_completion_percent,
                  total_fragments_visited |-> Len(ctx.state.fragments_visited),
                  total_decisions |-> ctx.state.total_decisions_made,
                  total_points_earned |-> SumPoints(ctx.db.decisions),
                  endings_reached |-> EndingsReached(ctx.state),
                  relationship_scores |-> ctx.state.relationship_scores]]]

Decisions10 == 10
Decisions50 == 50
Percent25 == 25
Percent100 == 100
LucienTrusted == 50

\* the achievement ids whose condition holds, in the order the code tests them
DueAchievements(state) ==
    (IF state.total_decisions_made >= Decisions10
     THEN << "narrative_10_decisions" >> ELSE <<>>)
    \o (IF state.total_decisions_made >= Decisions50
        THEN << "narrative_50_decisions" >> ELSE <<>>)
    \o (IF state.story_completion_percent >= Percent25
        THEN << "narrative_25_percent" >> ELSE <<>>)
    \o (IF state.story_completion_percent >= Percent100
        THEN << "narrative_complete_" \o state.active_story >> ELSE <<>>)
    \o (IF Get(state.relationship_scores, "lucien", 0) >= LucienTrusted
        THEN << "lucien_trusted" >> ELSE <<>>)

NewAchievementsAll(before, after, ids) ==
    [ctx |-> after,
     result |-> [NoResult EXCEPT
        !.op = "check_achievements", !.ok = TRUE, !.code = "Ok",
        !.granted = ids]]

\* _check_and_award_achievement returns the achievement when it granted it now
NewAchievements(before, after, ids) ==
    [ctx |-> after,
     result |-> [NoResult EXCEPT
        !.op = "check_achievements", !.ok = TRUE, !.code = "Ok",
        !.granted = SelectSeq(ids, LAMBDA a : a \notin before.achievements
                                              /\ a \in after.achievements)]]

check_achievements(ctx0, failing) ==
    IF ~ctx0.state.present
    THEN NewAchievements(ctx0, ctx0, <<>>)
    ELSE NewAchievements(ctx0,
            AwardAll(ctx0, DueAchievements(ctx0.state), failing),
            DueAchievements(ctx0.state))

----------------------------------------------------------------------------
(* Sequential specification: one handler call at a time, each in a fresh    *)
(* session on the durable store                                             *)

NoCalls == <<>>

Init ==
    /\ db = [state |-> NoState, decisions |-> <<>>]
    /\ achievements = {}
    /\ user \in [level : Levels, role : Roles]
    /\ trace = <<>>
    /\ result = NoResult
    /\ calls = NoCalls

Open == Session(db.state, db, achievements)

ForwardMove(res) == res.ok /\ res.op \in {"make_choice", "navigate_next"}

MovedFrom(res) ==
    IF ForwardMove(res) THEN db.state.current_fragment_id
    ELSE IF res.op = "go_back" /\ ForwardMove(result) THEN result.from
    ELSE None

Apply(out, arg) ==
    /\ db' = out.ctx.db
    /\ achievements' = out.ctx.achievements
    /\ trace' = out.ctx.trace
    /\ result' = [out.result EXCEPT !.arg = arg,
                                    !.prev = IF result.ok /\ result.op \in
                                                  {"start_story", "check_achievements"}
                                            THEN result.op ELSE None,
                                    !.from = MovedFrom(out.result)]
    /\ UNCHANGED <<user, calls>>

StartStory ==
    \E story_id \in StoryIds, env \in StartEnvs :
        \E out \in {start_story(Open, user, story_id, env.failing, env.failCommit)} :
            Apply(out, story_id)

MakeChoice ==
    /\ db.state.total_decisions_made < MaxDecisions
    /\ \E choice_id \in ChoiceIds, env \in CallEnvs, t \in Times :
        \E out \in {make_choice(Open, user, t, choice_id, env.failing, env.failCommit)} :
            Apply(out, choice_id)

NavigateNext ==
    \E env \in CallEnvs, t \in Times :
        \E out \in {navigate_next(Open, user, t, env.failing, env.failCommit)} :
            Apply(out, None)

GoBack ==
    \E env \in CallEnvs, t \in Times :
        \E out \in {go_back(Open, t, env.failCommit)} :
            Apply(out, None)

Next ==
    \/ StartStory
    \/ MakeChoice
    \/ NavigateNext
    \/ GoBack

Spec == Init /\ [][Next]_vars

StoryFilters == {None, "free"}

AuxEnvs == {{}, Collaborators}

CheckAchievements ==
    \E failing \in AuxEnvs :
        \E out \in {check_achievements(Open, failing)} :
            Apply(out, None)

GetUserStats ==
    \E out \in {get_user_stats(Open)} :
        Apply(out, None)

GetUserHistory ==
    \E story_id \in StoryFilters :
        \E out \in {get_user_history(Open, story_id, HistoryLimit)} :
            Apply(out, story_id)

\* every operation of the engine, one call at a time
NextAll ==
    \/ Next
    \/ CheckAchievements
    \/ GetUserStats
    \/ GetUserHistory

\* a user of the free story
InitAll ==
    /\ db = [state |-> NoState, decisions |-> <<>>]
    /\ achievements = {}
    /\ user \in [level : Levels, role : {"free"}]
    /\ trace = <<>>
    /\ result = NoResult
    /\ calls = NoCalls

SpecAll == InitAll /\ [][NextAll]_vars

----------------------------------------------------------------------------
(* Interleaved specification: two handler calls for the same user, each in  *)
(* its own session.  A call suspends at its awaits; the first, the load of  *)
(* the row in get_user_state, is where the other call can run, and the rest *)
(* of the handler then works on the row as loaded.  The service takes no    *)
(* lock and checks no version.                                              *)

Callers == 1..2

Request(op, arg) == [op |-> op, arg |-> arg]

Requests == {Request("start_story", "free"), Request("make_choice", "c1"),
             Request("make_choice", "c4"), Request("navigate_next", None),
             Request("go_back", None)}

Idle == [phase |-> "idle", req |-> Request(None, None), loaded |-> NoState]

\* the handler of a request, run to its end in the session ctx
Run(req, ctx, usr, t) ==
    CASE req.op = "start_story" -> start_story(ctx, usr, req.arg, {}, 0)
      [] req.op = "make_choice" -> make_choice(ctx, usr, t, req.arg, {}, 0)
      [] req.op = "navigate_next" -> navigate_next(ctx, usr, t, {}, 0)
      [] OTHER -> go_back(ctx, t, 0)

InitConc ==
    /\ db = [state |-> NoState, decisions |-> <<>>]
    /\ achievements = {}
    /\ user \in [level : Levels, role : {"free"}]
    /\ trace = <<>>
    /\ result = NoResult
    /\ calls = [base |-> db, ach |-> achievements, c |-> [i \in Callers |-> Idle]]

\* get_user_state returns: the call holds the row as it is in the store now.
\* base is the store when the first call of a pair begins.
Begin(i) ==
    \E req \in Requests :
        /\ calls.c[i].phase = "idle"
        /\ req.op = "make_choice" => db.state.total_decisions_made < MaxDecisions
        /\ calls' = [calls EXCEPT
                !.c[i] = [phase |-> "loaded", req |-> req, loaded |-> db.state],
                !.base = IF \A j \in Callers : calls.c[j].phase = "idle" THEN db ELSE @,
                !.ach = IF \A j \in Callers : calls.c[j].phase = "idle"
                        THEN achievements ELSE @]
        /\ UNCHANGED <<db, achievements, user, trace, result>>

\* the rest of the handler, up to its return
Complete(i) ==
    /\ calls.c[i].phase = "loaded"
    /\ \E t \in Times :
        \E out \in {Run(calls.c[i].req, Session(calls.c[i].loaded, db, achievements),
                        user, t)} :
            /\ db' = out.ctx.db
            /\ achievements' = out.ctx.achievements
            /\ trace' = out.ctx.trace
            /\ result' = [out.result EXCEPT !.arg = calls.c[i].req.arg]
    /\ calls' = [calls EXCEPT !.c[i].phase = "done"]
    /\ UNCHANGED user

\* both calls have returned; the next pair may begin
Reset ==
    /\ \A i \in Callers : calls.c[i].phase = "done"
    /\ calls' = [calls EXCEPT !.c = [i \in Callers |-> Idle]]
    /\ UNCHANGED <<db, achievements, user, trace, result>>

NextConc ==
    \/ \E i \in Callers : Begin(i)
    \/ \E i \in Callers : Complete(i)
    \/ Reset

SpecConc == InitConc /\ [][NextConc]_vars

\* the store after call i and then call j, each run alone from the base store
Serial(i, j, t) ==
    Run(calls.c[j].req,
        Session(Run(calls.c[i].req, Session(calls.base.state, calls.base, calls.ach),
                    user, t).ctx.db.state,
                Run(calls.c[i].req, Session(calls.base.state, calls.base, calls.ach),
                    user, t).ctx.db,
                Run(calls.c[i].req, Session(calls.base.state, calls.base, calls.ach),
                    user, t).ctx.achievements),
        user, t).ctx.db

----------------------------------------------------------------------------
(* Claims.  Under Spec every step that changes the variables is one handler *)
(* call, and result' names the call: its operation, argument and outcome.   *)

State == db.state

CurrentFragment == get_fragment(State.active_story, State.current_fragment_id)

UserFacts == [level |-> user.level, items |-> <<>>, achievements |-> achievements,
              story_flags |-> State.story_flags]

\* C1: make_choice with a choice id that does not validate against the user's
\* current fragment returns InvalidChoice and leaves the narrative state and
\* the decision log as they were.
C1_InvalidChoiceNoMutation ==
    [][ ( /\ result'.op = "make_choice"
          /\ State.present
          /\ CurrentFragment.id # None
          /\ validate_choice(State.active_story, State.current_fragment_id,
                             result'.arg).id = None )
        => ( /\ result'.code = "InvalidChoice"
             /\ ~result'.ok
             /\ db' = db ) ]_vars

C1_Witness ==
    /\ result.op = "make_choice"
    /\ result.code = "InvalidChoice"
    /\ result.arg = "c1"
    /\ State.current_fragment_id = "f2"
    /\ State.total_decisions_made = 1

\* C2: make_choice on a valid choice whose requirements the user facts do not
\* satisfy returns RequirementsNotMet with the missing reasons, and leaves the
\* cursor, visited list, decision counter, relationship scores, story flags
\* and the decision log unchanged.
C2_RequirementsNotMetNoMutation ==
    [][ ( /\ result'.op = "make_choice"
          /\ State.present
          /\ CurrentFragment.id # None
          /\ validate_choice(State.active_story, State.current_fragment_id,
                             result'.arg).id # None
          /\ ~check_requirements(
                 validate_choice(State.active_story, State.current_fragment_id,
                                 result'.arg).requirements, UserFacts).ok )
        => ( /\ result'.code = "RequirementsNotMet"
             /\ ~result'.ok
             /\ result'.missing = check_requirements(
                    validate_choice(State.active_story, State.current_fragment_id,
                                    result'.arg).requirements, UserFacts).missing
             /\ Len(result'.missing) > 0
             /\ db'.state.current_fragment_id = State.current_fragment_id
             /\ db'.state.fragments_visited = State.fragments_visited
             /\ db'.state.total_decisions_made = State.total_decisions_made
             /\ db'.state.relationship_scores = State.relationship_scores
             /\ db'.state.story_flags = State.story_flags
             /\ db'.decisions = db.decisions ) ]_vars

C2_Witness ==
    /\ result.op = "make_choice"
    /\ result.arg = "c2"
    /\ result.code = "RequirementsNotMet"
    /\ result.missing = << [kind |-> "min_level", value |-> 5] >>
    /\ user.level = 1
    /\ State.current_fragment_id = "f1"

HasDecision(decisions, fragment_id, choice_id) ==
    \E i \in 1..Len(decisions) :
        decisions[i].fragment_id = fragment_id /\ decisions[i].choice_id = choice_id

\* C3 as stated: after a successful start_story immediately followed by one
\* successful make_choice, total_decisions_made is 1, the visited list has
\* length 2 and the log holds a row (starting fragment, chosen choice).
C3_Original ==
    ( /\ result.op = "make_choice"
      /\ result.ok
      /\ result.prev = "start_story" )
    => ( /\ State.total_decisions_made = 1
         /\ Len(State.fragments_visited) = 2
         /\ HasDecision(db.decisions,
                        get_starting_fragment(State.active_story).id, result.arg) )

\* C3 as amended: start_story leaves total_decisions_made as it was, and a
\* successful make_choice right after a successful start_story adds one to it;
\* the visited list is then [start, target], or [start] alone when the choice
\* leads back to the starting fragment; the last row of the log is
\* (starting fragment, chosen choice).
C3_StartThenChoice ==
    [][ /\ ( result'.op = "start_story"
             => db'.state.total_decisions_made = State.total_decisions_made )
        /\ ( ( /\ result.op = "start_story"
               /\ result.ok
               /\ result'.op = "make_choice"
               /\ result'.ok )
             => ( /\ db'.state.total_decisions_made = State.total_decisions_made + 1
                  /\ db'.state.fragments_visited =
                        IF result'.fragment = result.fragment
                        THEN << result.fragment >>
                        ELSE << result.fragment, result'.fragment >>
                  /\ Len(db'.decisions) = Len(db.decisions) + 1
                  /\ db'.decisions[Len(db'.decisions)].fragment_id = result.fragment
                  /\ db'.decisions[Len(db'.decisions)].choice_id = result'.arg ) ) ]_vars

C3_Witness ==
    /\ result.op = "make_choice"
    /\ result.ok
    /\ result.prev = "start_story"
    /\ State.total_decisions_made = 2
    /\ State.fragments_visited = << "f1", "f2" >>

Kinds(kinds) == {i \in 1..Len(trace) : trace[i].kind \in kinds}

Transitions == {"make_choice", "navigate_next"}

\* C5: a make_choice or navigate_next that does not succeed, its commit having
\* failed or a later step having raised, leaves the durable narrative state
\* and the decision log exactly as they were before the call.
C5_AllOrNothing ==
    [][ ( result'.op \in Transitions /\ ~result'.ok ) => db' = db ]_vars

C5_Witness ==
    /\ result.op = "make_choice"
    /\ result.arg = "c1"
    /\ result.code = "Raised"
    /\ \E i \in 1..Len(trace) : trace[i].kind = "commit_failed"
    /\ \E i \in 1..Len(trace) : trace[i].kind = "points" /\ trace[i].id = "effect"
    /\ State.current_fragment_id = "f1"

\* C6: within make_choice and navigate_next every grant to the points,
\* achievement and lore collaborators is attempted only after the commit of
\* that transition has succeeded.
C6_GrantsAfterCommit ==
    result.op \in Transitions
    => \A i \in Kinds({"points", "achievement", "lore"}) :
          \E j \in Kinds({"commit"}) : j < i

\* C7: when a collaborator (points, metrics, lore, achievements) failed during
\* start_story, make_choice or navigate_next and the state of the transition
\* was committed, the call still returns success with the resulting fragment.
C7_AuxFailureNotReported ==
    ( /\ result.op \in Transitions \cup {"start_story"}
      /\ \E i \in 1..Len(trace) : trace[i].failed
      /\ Kinds({"commit"}) # {}
      /\ Kinds({"commit_failed"}) = {} )
    => ( /\ result.ok
         /\ result.fragment # None
         /\ result.fragment = State.current_fragment_id )

C7_Witness ==
    /\ result.op = "make_choice"
    /\ result.ok
    /\ result.fragment = "f3"
    /\ \A i \in Kinds({"points", "achievement", "lore", "visit", "choice_metric",
                       "checkpoint"}) : trace[i].failed
    /\ Kinds({"achievement"}) # {}
    /\ Kinds({"commit"}) # {}

\* C8: every successful make_choice or navigate_next that enters a fragment of
\* kind checkpoint invokes the checkpoint collaborator's save exactly once.
C8_CheckpointSavedOnce ==
    ( /\ result.op \in Transitions
      /\ result.ok
      /\ get_fragment(State.active_story, result.fragment).type = "checkpoint" )
    => Cardinality(Kinds({"checkpoint"})) = 1

\* C9: a start_story refused with AccessDenied leaves the store exactly as it
\* was: an existing row untouched, and no row created for a user who had none.
C9_AccessDeniedNoMutation ==
    [][ ( result'.op = "start_story" /\ result'.code = "AccessDenied" )
        => db' = db ]_vars

\* C10: a successful start_story(story) leaves active story = story, cursor =
\* the story's starting fragment, visited list = [starting fragment],
\* completion percent = 0, and returns the starting fragment.
C10_StartStoryResets ==
    ( result.op = "start_story" /\ result.ok )
    => ( /\ State.present
         /\ State.active_story = result.arg
         /\ State.current_fragment_id = get_starting_fragment(result.arg).id
         /\ State.current_fragment_id # None
         /\ State.fragments_visited = << get_starting_fragment(result.arg).id >>
         /\ State.story_completion_percent = 0
         /\ result.fragment = get_starting_fragment(result.arg).id )

C10_Witness ==
    /\ result.op = "start_story"
    /\ result.ok
    /\ result.arg = "vip"
    /\ State.total_decisions_made = 2
    /\ Len(db.decisions) = 2
    /\ State.vip_story_unlocked

\* C4: two calls issued concurrently for one user leave the state and the
\* decision log as some sequential execution of the two calls would.
C4_Serializable ==
    ( \A i \in Callers : calls.c[i].phase = "done" )
    => \E t \in Times : db \in {Serial(1, 2, t), Serial(2, 1, t)}

\* C11: go_back with a visited list of length 1, as right after one
\* start_story, fails with CannotGoBack and leaves the cursor and the rest of
\* the state unchanged.
C11_GoBackAtHistoryOne ==
    [][ ( /\ result'.op = "go_back"
          /\ State.present
          /\ Len(State.fragments_visited) = 1 )
        => ( /\ result'.code = "CannotGoBack"
             /\ ~result'.ok
             /\ db' = db ) ]_vars

C11_Witness ==
    /\ result.op = "go_back"
    /\ result.code = "CannotGoBack"
    /\ result.prev = "start_story"
    /\ State.fragments_visited = << "f1" >>
    /\ State.current_fragment_id = "f1"

\* C12: a successful go_back puts the cursor on the entry of the visited list
\* just before the position of the current fragment in it, and go_back fails
\* with CannotGoBack when the current fragment is the first entry.
C12_GoBackToPreceding ==
    [][ ( /\ result'.op = "go_back"
          /\ State.present
          /\ Contains(State.fragments_visited, State.current_fragment_id) )
        => IF Index(State.fragments_visited, State.current_fragment_id) = 1
           THEN result'.code = "CannotGoBack" /\ ~result'.ok /\ db' = db
           ELSE result'.ok =>
                  /\ db'.state.current_fragment_id =
                        State.fragments_visited[
                            Index(State.fragments_visited,
                                  State.current_fragment_id) - 1]
                  /\ result'.fragment = db'.state.current_fragment_id ]_vars

C12_Witness ==
    /\ result.op = "go_back"
    /\ result.ok
    /\ result.fragment = "f2"
    /\ State.current_fragment_id = "f2"
    /\ State.fragments_visited = << "f1", "f2", "f3" >>

\* C13: go_back changes only the cursor, the chapter and the last-interaction
\* time; the visited list, the decision counter, relationship scores, story
\* flags, completion percent and the decision log stay as they were, and no
\* points, achievement, lore or metrics collaborator is called.
C13_GoBackFrame ==
    [][ result'.op = "go_back"
        => ( /\ db'.state = [State EXCEPT
                    !.current_fragment_id = db'.state.current_fragment_id,
                    !.current_chapter = db'.state.current_chapter,
                    !.last_interaction_at = db'.state.last_interaction_at]
             /\ db'.decisions = db.decisions
             /\ achievements' = achievements
             /\ \A i \in 1..Len(trace') :
                    trace'[i].kind \in {"commit", "commit_failed"} ) ]_vars

C13_Witness ==
    /\ result.op = "go_back"
    /\ result.ok
    /\ State.current_fragment_id = "f1"
    /\ State.fragments_visited = << "f1", "f2" >>
    /\ State.relationship_scores.lucien = 1
    /\ State.story_completion_percent = 50
    /\ Len(db.decisions) = 1
    /\ trace = << Event("commit", None, None, 0) >>

\* C14 as stated: a successful make_choice or navigate_next into a fragment
\* that occurs in the visited list but is not its last entry appends the
\* fragment id to the visited list again.
C14_Original ==
    [][ ( /\ result'.op \in Transitions
          /\ result'.ok
          /\ Contains(State.fragments_visited, result'.fragment)
          /\ State.fragments_visited[Len(State.fragments_visited)] # result'.fragment )
        => db'.state.fragments_visited =
                Append(State.fragments_visited, result'.fragment) ]_vars

\* C14 as amended: a successful make_choice or navigate_next into a fragment
\* that already occurs in the visited list, last entry or not, moves the
\* cursor there and leaves the visited list as it was.
C14_RevisitKeepsVisited ==
    [][ ( /\ result'.op \in Transitions
          /\ result'.ok
          /\ Contains(State.fragments_visited, result'.fragment) )
        => ( /\ db'.state.fragments_visited = State.fragments_visited
             /\ db'.state.current_fragment_id = result'.fragment ) ]_vars

C14_Witness ==
    /\ result.op = "make_choice"
    /\ result.arg = "c1"
    /\ result.ok
    /\ State.current_fragment_id = "f2"
    /\ State.fragments_visited = << "f1", "f2", "f3" >>
    /\ State.total_decisions_made = 2

NoDuplicates(s) == \A i, j \in 1..Len(s) : s[i] = s[j] => i = j

\* C15: in every reachable state no fragment id occurs more than once in the
\* visited list, loops of the story graph and choices made again after a
\* go_back included.
C15_VisitedNoDuplicates == NoDuplicates(State.fragments_visited)

C15_Witness ==
    /\ result.op = "make_choice"
    /\ result.arg = "c4"
    /\ result.ok
    /\ State.current_fragment_id = "f1"
    /\ State.fragments_visited = << "f1", "f2" >>
    /\ Len(db.decisions) = 2

NextOfCurrent == get_fragment(State.active_story, CurrentFragment.next_fragment)

\* C16: a successful navigate_next puts the cursor on the current fragment's
\* next_fragment, appends no UserDecision and leaves total_decisions_made,
\* the relationship scores and the decision log unchanged.
C16_NavigateNoDecision ==
    [][ ( result'.op = "navigate_next" /\ result'.ok )
        => ( /\ db'.state.current_fragment_id = CurrentFragment.next_fragment
             /\ result'.fragment = CurrentFragment.next_fragment
             /\ db'.decisions = db.decisions
             /\ db'.state.total_decisions_made = State.total_decisions_made
             /\ db'.state.relationship_scores = State.relationship_scores ) ]_vars

C16_Witness ==
    /\ result.op = "navigate_next"
    /\ result.ok
    /\ result.fragment = "f3"
    /\ State.current_fragment_id = "f3"
    /\ State.total_decisions_made = 1
    /\ Len(db.decisions) = 1
    /\ State.relationship_scores.lucien = 1

\* C17: navigate_next to a target fragment whose entry requirements the user
\* facts do not satisfy fails with RequirementsNotMet, and navigate_next from
\* a fragment without next_fragment fails with NoNextFragment; either way the
\* cursor, visited list, completion percent and all other state are unchanged.
C17_NavigateRefusedNoMutation ==
    [][ ( /\ result'.op = "navigate_next"
          /\ State.present
          /\ CurrentFragment.id # None )
        => ( /\ CurrentFragment.next_fragment = None
                => ( /\ result'.code = "NoNextFragment"
                     /\ ~result'.ok
                     /\ db' = db )
             /\ ( /\ CurrentFragment.next_fragment # None
                  /\ NextOfCurrent.id # None
                  /\ ~check_requirements(NextOfCurrent.requirements, UserFacts).ok )
                => ( /\ result'.code = "RequirementsNotMet"
                     /\ ~result'.ok
                     /\ result'.missing =
                          check_requirements(NextOfCurrent.requirements,
                                             UserFacts).missing
                     /\ db' = db ) ) ]_vars

C17_Witness ==
    /\ result.op = "navigate_next"
    /\ result.code = "RequirementsNotMet"
    /\ result.missing = << [kind |-> "min_level", value |-> 5] >>
    /\ user.level = 1
    /\ State.current_fragment_id = "f3"
    /\ State.fragments_visited = << "f1", "f2", "f3" >>
    /\ State.story_completion_percent = 75

StoryFragmentIds(story_id) == {f.id : f \in Elems(get_story(story_id).fragments)}

\* C18: after every successful make_choice or navigate_next the stored
\* completion percent is |distinct visited in the story| / |fragments of the
\* story| * 100, lies in 0..100, and is 100 when every fragment of the active
\* story is in the visited list.
C18_CompletionAfterTransition ==
    [][ ( result'.op \in Transitions /\ result'.ok )
        => ( /\ db'.state.story_completion_percent
                    * Cardinality(StoryFragmentIds(db'.state.active_story))
                = Cardinality(Elems(db'.state.fragments_visited)
                              \cap StoryFragmentIds(db'.state.active_story)) * 100
             /\ db'.state.story_completion_percent \in 0..100
             /\ StoryFragmentIds(db'.state.active_story)
                    \subseteq Elems(db'.state.fragments_visited)
                => db'.state.story_completion_percent = 100 ) ]_vars

C18_Witness ==
    /\ result.op = "navigate_next"
    /\ result.ok
    /\ State.active_story = "free"
    /\ State.fragments_visited = << "f1", "f2", "f3", "f4" >>
    /\ State.story_completion_percent = 100

NoFailedCall == \A i \in 1..Len(trace) : ~trace[i].failed

C20_DecisionLogAppendOnly ==
    [][ IF result'.op = "make_choice" /\ result'.ok
        THEN /\ Len(db'.decisions) = Len(db.decisions) + 1
             /\ SubSeq(db'.decisions, 1, Len(db.decisions)) = db.decisions
             /\ db'.decisions[Len(db'.decisions)].fragment_id
                    = State.current_fragment_id
             /\ db'.decisions[Len(db'.decisions)].choice_id = result'.arg
             /\ db'.decisions[Len(db'.decisions)].chapter = CurrentFragment.chapter
        ELSE db'.decisions = db.decisions ]_vars

C20_Witness ==
    /\ result.op = "get_user_history"
    /\ result.arg = "free"
    /\ Len(result.history) = 2
    /\ result.history[1].choice_id = "c1"
    /\ result.history[2].choice_id = "c4"
    /\ Len(db.decisions) = 2
    /\ db.decisions[1].choice_id = "c4"
    /\ db.decisions[2] = [fragment_id |-> "f1", choice_id |-> "c1", chapter |-> 1,
                          points_gained |-> 5, items_gained |-> <<>>]

ChoiceOf(choice_id) ==
    validate_choice(State.active_story, State.current_fragment_id, choice_id)

\* C21: make_choice on a valid choice whose requirements hold and whose
\* next_fragment does not resolve in the catalog fails with FragmentLoadError
\* and changes nothing: no UserDecision, no effect on relationship scores or
\* story flags, no points granted, cursor, visited list and decision counter
\* as before.
C21_UnresolvedTargetNoMutation ==
    [][ ( /\ result'.op = "make_choice"
          /\ State.present
          /\ CurrentFragment.id # None
          /\ ChoiceOf(result'.arg).id # None
          /\ check_requirements(ChoiceOf(result'.arg).requirements, UserFacts).ok
          /\ get_fragment(State.active_story,
                          ChoiceOf(result'.arg).next_fragment).id = None )
        => ( /\ result'.code = "FragmentLoadError"
             /\ ~result'.ok
             /\ db' = db
             /\ achievements' = achievements
             /\ trace' = <<>> ) ]_vars

C21_Witness ==
    /\ result.op = "make_choice"
    /\ result.arg = "c3"
    /\ result.code = "FragmentLoadError"
    /\ State.current_fragment_id = "f1"
    /\ State.fragments_visited = << "f1", "f2" >>
    /\ State.total_decisions_made = 1
    /\ State.relationship_scores.lucien = 1

\* C22: on a successful make_choice the metrics collaborator gets a fragment
\* visit for the next fragment and a choice metric for (the fragment the
\* choice was made from, the chosen choice id): the fragment id of the choice
\* metric is the cursor as it was before the transition.
C22_ChoiceMetricAtSource ==
    [][ ( result'.op = "make_choice" /\ result'.ok )
        => ( /\ \E i \in 1..Len(trace') :
                    /\ trace'[i].kind = "visit"
                    /\ trace'[i].id = result'.fragment
             /\ \E i \in 1..Len(trace') :
                    /\ trace'[i].kind = "choice_metric"
                    /\ trace'[i].id = State.current_fragment_id
                    /\ trace'[i].arg = result'.arg ) ]_vars

EffectOf(choice_id, key) ==
    IF key \in DOMAIN ChoiceOf(choice_id).effects
    THEN ChoiceOf(choice_id).effects[key] ELSE EmptyDict

\* C23: a successful make_choice applies the choice's effects as one unit:
\* every character of the relationship deltas gets its old score (0 when it
\* had none) plus the delta, every other score is unchanged, and the story
\* flags are the old flags with the effect's flags merged in (new keys added,
\* existing keys overwritten, other keys unchanged).  The key
\* discovered_fragments, which the rewards of the target may add, is apart.
C23_EffectsApplied ==
    [][ ( result'.op = "make_choice" /\ result'.ok )
        => ( /\ DOMAIN db'.state.relationship_scores
                  = DOMAIN State.relationship_scores
                    \cup DOMAIN EffectOf(result'.arg, "relationships")
             /\ \A c \in DOMAIN db'.state.relationship_scores :
                    db'.state.relationship_scores[c]
                      = Get(State.relationship_scores, c, 0)
                        + Get(EffectOf(result'.arg, "relationships"), c, 0)
             /\ DOMAIN db'.state.story_flags \ {"discovered_fragments"}
                  = ( DOMAIN State.story_flags
                      \cup DOMAIN EffectOf(result'.arg, "story_flags") )
                    \ {"discovered_fragments"}
             /\ \A k \in DOMAIN db'.state.story_flags \ {"discovered_fragments"} :
                    db'.state.story_flags[k]
                      = IF k \in DOMAIN EffectOf(result'.arg, "story_flags")
                        THEN EffectOf(result'.arg, "story_flags")[k]
                        ELSE State.story_flags[k] ) ]_vars

C23_Witness ==
    /\ result.op = "make_choice"
    /\ result.arg = "c1"
    /\ result.ok
    /\ State.relationship_scores = [lucien |-> 2, kinky |-> 4, diana |-> 0]
    /\ State.story_flags.first_time = 0
    /\ State.story_flags.met_lucien = 1
    /\ State.story_flags.secrets_discovered = 0

Count(kind, id) ==
    Cardinality({i \in 1..Len(trace) : trace[i].kind = kind /\ trace[i].id = id})

RewardsOf(fragment_id) == get_fragment(State.active_story, fragment_id).rewards

\* the calls the rewards of the fragment just entered ask for, each made once
RewardsProcessedOnce ==
    /\ Count("points", "reward")
         = IF RewardsOf(result.fragment).points > 0 THEN 1 ELSE 0
    /\ Cardinality(Kinds({"achievement"}))
         = Len(RewardsOf(result.fragment).achievements)
    /\ Cardinality(Kinds({"lore"})) = Len(RewardsOf(result.fragment).lore_pieces)

\* C24: every successful make_choice applies the effects of the choice once
\* and processes the rewards of the target fragment once, also when the target
\* was already in the visited list; navigate_next processes the rewards of
\* its target once and applies no effects.
C24_EffectsAndRewardsOnce ==
    /\ ( result.op = "make_choice" /\ result.ok )
       => ( /\ RewardsProcessedOnce
            /\ Count("points", "effect")
                 = IF db.decisions[Len(db.decisions)].points_gained > 0 THEN 1 ELSE 0 )
    /\ ( result.op = "navigate_next" /\ result.ok )
       => ( /\ RewardsProcessedOnce
            /\ Count("points", "effect") = 0 )

C24_Witness ==
    /\ result.op = "make_choice"
    /\ result.arg = "c2"
    /\ result.ok
    /\ State.current_fragment_id = "f3"
    /\ State.fragments_visited = << "f1", "f3" >>
    /\ State.total_decisions_made = 2
    /\ Count("points", "reward") = 1
    /\ Count("achievement", "ach_checkpoint") = 1
    /\ Count("lore", "lore1") = 1

\* C25: between two start_story calls the stored completion percent never
\* decreases, whatever make_choice, navigate_next and go_back calls are made
\* and whether they succeed or fail.
C25_CompletionNeverDecreases ==
    [][ result'.op \in {"make_choice", "navigate_next", "go_back"}
        => db'.state.story_completion_percent >= State.story_completion_percent ]_vars

C25_Witness ==
    /\ result.op = "make_choice"
    /\ result.arg = "c4"
    /\ result.ok
    /\ State.current_fragment_id = "f1"
    /\ State.fragments_visited = << "f1", "f2", "f3" >>
    /\ State.story_completion_percent = 75

\* C26: whenever the user has a cursor, the current fragment id is in the
\* visited list, so the lookup of its position by go_back finds it: go_back
\* returns a structured result and raises only when its commit fails.
C26_CursorInVisited ==
    /\ ( State.present /\ State.current_fragment_id # None )
       => Contains(State.fragments_visited, State.current_fragment_id)
    /\ ( result.op = "go_back" /\ result.code = "Raised" )
       => Cardinality(Kinds({"commit_failed"})) = 1

C26_Witness ==
    /\ result.op = "go_back"
    /\ result.ok
    /\ State.current_fragment_id = "f3"
    /\ State.fragments_visited = << "f1", "f2", "f3", "f4" >>

\* C27: with one call at a time, total_decisions_made is in every reachable
\* state the number of UserDecision rows of the user: a successful make_choice
\* adds one to both and nothing else, start_story included, changes either.
C27_CounterMatchesLog == State.total_decisions_made = Len(db.decisions)

C27_Witness ==
    /\ result.op = "start_story"
    /\ result.ok
    /\ State.fragments_visited = << "f1" >>
    /\ State.total_decisions_made = 2
    /\ Len(db.decisions) = 2

\* C29: whenever the user has a cursor, the current fragment id resolves to a
\* fragment of the active story and every id of the visited list is a
\* fragment of the active story, also after switching stories.
C29_CursorAndVisitedInStory ==
    ( State.present /\ State.current_fragment_id # None )
    => ( /\ CurrentFragment.id = State.current_fragment_id
         /\ Elems(State.fragments_visited) \subseteq StoryFragmentIds(State.active_story) )

C29_Witness ==
    /\ result.op = "navigate_next"
    /\ result.ok
    /\ State.active_story = "vip"
    /\ State.current_fragment_id = "v2"
    /\ State.fragments_visited = << "v1", "v2" >>
    /\ State.total_decisions_made = 1
    /\ State.relationship_scores.lucien = 1

PositionOfCursor == Index(State.fragments_visited, State.current_fragment_id)

\* C28 as stated: a go_back issued right after a successful make_choice or
\* navigate_next that moved the user from A to B succeeds and puts the cursor
\* back on A.
C28_Original ==
    [][ ( /\ ForwardMove(result)
          /\ result'.op = "go_back"
          /\ result'.code # "Raised" )
        => ( /\ result'.ok
             /\ db'.state.current_fragment_id = result.from ) ]_vars

\* C28 as amended: a go_back issued right after a successful move from A to B
\* puts the cursor on the entry just before B in the visited list; it is back
\* on A exactly when A is that entry, and it fails with CannotGoBack, the
\* cursor staying on B, when B is the first entry of the list.
C28_GoBackAfterMove ==
    [][ ( /\ ForwardMove(result)
          /\ result'.op = "go_back"
          /\ result'.code # "Raised" )
        => IF PositionOfCursor = 1
           THEN /\ result'.code = "CannotGoBack"
                /\ db' = db
           ELSE /\ result'.ok
                /\ db'.state.current_fragment_id
                     = State.fragments_visited[PositionOfCursor - 1]
                /\ db'.state.current_fragment_id = result.from
                     <=> State.fragments_visited[PositionOfCursor - 1] = result.from ]_vars

C28_Witness ==
    /\ result.op = "go_back"
    /\ result.ok
    /\ result.from = "f1"
    /\ State.current_fragment_id = "f2"
    /\ State.fragments_visited = << "f1", "f2", "f3" >>

====
